---- MODULE Spec2Model ----
(***************************************************************************)
(* A model of libmonado-rs, the Rust binding of Monado's libmonado:        *)
(* the connection (Monado::create, get_api_version, Drop), the ownership   *)
(* of the connection by its dependent values, the runtime resolver         *)
(* (Monado::auto_connect, resolve_runtime_library) and the enumerations    *)
(* (clients, devices, tracking_origins).                                   *)
(*                                                                         *)
(* The foreign side (the loaded library) is an environment: what it        *)
(* reports and the status of each of its calls are drawn from bounded      *)
(* sets.  Every foreign call the binding issues is appended to `calls`.    *)
(***************************************************************************)
EXTENDS Integers, Sequences, FiniteSets, TLC

VARIABLES
    lib,      \* the shared library at the path given to create (environment)
    calls,    \* the trace of foreign calls issued so far
    conn,     \* the Monado value: "none", "live", "dropped"
    ret,      \* what the last operation returned to its caller
    op,       \* the last operation of the binding that ran
    before,   \* Len(calls) when the last operation started
    own,      \* who holds the connection (owner, Rc/Arc handles, dependents)
    env,      \* what auto_connect finds: variables, files, the loader
    obs,      \* what auto_connect did: files read, names probed, path loaded
    run       \* the runtime's client state and a set_io_active in flight

vars == <<lib, calls, conn, ret, op, before, own, env, obs, run>>

----------------------------------------------------------------------------
(* Bounds of the model. *)

MaxMajor == 2
MaxMinor == 4
MaxPatch == 1

(* The foreign calls recorded after which get_api_version is no longer tried. *)
MaxCalls == 4

----------------------------------------------------------------------------
(* sys.rs: the status codes and their conversion to a Result. *)

MndResult ==
    { "Success", "ErrorInvalidVersion", "ErrorInvalidValue", "ErrorConnectingFailed",
      "ErrorOperationFailed", "ErrorRecenteringNotSupported", "ErrorInvalidProperty",
      "ErrorInvalidOperation" }

Ok(v) == [ok |-> TRUE, val |-> v, err |-> "Success"]

Err(e) == [ok |-> FALSE, val |-> <<>>, err |-> e]

to_result_one_error(s) == IF s = "Success" THEN Ok(<<>>) ELSE Err("ErrorOperationFailed")

(* MndResult::to_result *)
to_result(s) == IF s = "Success" THEN Ok(<<>>) ELSE Err(s)

(* One foreign call: the entry point, its index or id argument (-1 when it *)
(* has none), the status it returned ("Success" for the entry points that  *)
(* return nothing) and the integers it wrote through its out-parameters.   *)
Call(fn, arg, st, out) == [fn |-> fn, arg |-> arg, st |-> st, out |-> out]

(* A foreign call that also wrote a C string through an out-parameter. *)
CallS(fn, arg, st, out, str) ==
    [fn |-> fn, arg |-> arg, st |-> st, out |-> out, str |-> str]

(* The entry points that take the root handle by value. *)
TakesRoot(fn) == fn \notin {"mnd_api_get_version", "mnd_root_create", "mnd_root_destroy"}

Count(s, fn) == Cardinality({i \in 1..Len(s) : s[i].fn = fn})

----------------------------------------------------------------------------
(* lib.rs: the version requirement and the version query. *)

Version(major, minor, patch) == [major |-> major, minor |-> minor, patch |-> patch]

crate_api_version_12 == [major |-> 1, minor |-> 2, patch |-> 0]

(* VersionReq::parse("^1.3.0"): one caret comparator. *)
crate_api_version == [major |-> 1, minor |-> 3, patch |-> 0]

(* semver's caret match of a comparator with major, minor and patch given, *)
(* against a version without pre-release (Version::new makes none).        *)
matches(req, ver) ==
    IF ver.major # req.major THEN FALSE
    ELSE IF req.major > 0 THEN
        IF ver.minor # req.minor THEN ver.minor > req.minor
        ELSE IF ver.patch # req.patch THEN ver.patch > req.patch
        ELSE TRUE
    ELSE IF req.minor > 0 THEN
        IF ver.minor # req.minor THEN FALSE
        ELSE IF ver.patch # req.patch THEN ver.patch > req.patch
        ELSE TRUE
    ELSE ver.minor = req.minor /\ ver.patch = req.patch

get_api_version_cached(api) ==
    [version |-> Version(api.version[1], api.version[2], api.version[3]),
     calls |-> <<>>]

get_api_version_swapped(api) ==
    [version |-> Version(api.version[1], api.version[3], api.version[2]),
     calls |-> <<Call("mnd_api_get_version", -1, "Success", api.version)>>]

(* fn get_api_version(api): one mnd_api_get_version call; the three u32    *)
(* out-parameters, widened to u64, make the Version.                       *)
get_api_version(api) ==
    [version |-> Version(api.version[1], api.version[2], api.version[3]),
     calls |-> <<Call("mnd_api_get_version", -1, "Success", api.version)>>]

----------------------------------------------------------------------------
(* lib.rs: Monado::create.  The result carries the calls it issued and     *)
(* whether a Monado value was constructed.                                 *)

create(l) ==
    IF ~l.loads THEN [res |-> Err("ErrorConnectingFailed"), calls |-> <<>>]
    ELSE
        LET v == get_api_version(l) IN
        IF ~matches(crate_api_version, v.version)
        THEN [res |-> Err("ErrorInvalidVersion"), calls |-> v.calls]
        ELSE
            LET c == Call("mnd_root_create", -1, l.createStatus, <<>>) IN
            IF to_result(l.createStatus).ok
            THEN [res |-> Ok(<<>>), calls |-> v.calls \o <<c>>]
            ELSE [res |-> to_result(l.createStatus), calls |-> v.calls \o <<c>>]

----------------------------------------------------------------------------
(* The values the variables the connection does not use are held at. *)

(* handles: the Rc<Monado> / Arc<Monado> handles the application holds;     *)
(* refC, refD: the live Client<'m> and Device<'m> values (they borrow);     *)
(* shC, shD: the live ClientRc/ClientArc and DeviceRc/DeviceArc values.     *)
NoOwn == [holder |-> "owned", handles |-> 0, refC |-> 0, refD |-> 0, shC |-> 0, shD |-> 0]

NoEnv == <<>>

NoObs == [reads |-> <<>>, probes |-> <<>>, loaded |-> <<>>]

(* No client is known to the runtime and no set_io_active is in flight. *)
NoRun == [state |-> <<>>, pc |-> "idle", id |-> 0, active |-> FALSE, read |-> 0,
          ext |-> 0, after |-> 0]

NoRet == [ok |-> FALSE, val |-> <<>>, err |-> "Success"]

(* The libraries a path may name: loadable or not, reporting any version   *)
(* triple, its mnd_root_create returning any status.                       *)
Libraries ==
    [loads : BOOLEAN,
     version : (0..MaxMajor) \X (0..MaxMinor) \X (0..MaxPatch),
     createStatus : MndResult]

Init ==
    /\ lib \in Libraries
    /\ calls = <<>>
    /\ conn = "none"
    /\ ret = NoRet
    /\ op = "none"
    /\ before = 0
    /\ own = NoOwn
    /\ env = NoEnv
    /\ obs = NoObs
    /\ run = NoRun

(* Monado::create(path). *)
Create ==
    /\ conn = "none"
    /\ op = "none"
    /\ LET r == create(lib) IN
        /\ calls' = calls \o r.calls
        /\ conn' = IF r.res.ok THEN "live" ELSE "none"
        /\ ret' = r.res
    /\ op' = "create"
    /\ before' = Len(calls)
    /\ UNCHANGED <<lib, own, env, obs, run>>

(* Monado::get_api_version(&self). *)
GetApiVersion ==
    /\ conn = "live"
    /\ Len(calls) < MaxCalls
    /\ LET r == get_api_version(lib) IN
        /\ calls' = calls \o r.calls
        /\ ret' = Ok(<<r.version.major, r.version.minor, r.version.patch>>)
    /\ op' = "get_api_version"
    /\ before' = Len(calls)
    /\ UNCHANGED <<lib, conn, own, env, obs, run>>

DropNoDestroy ==
    /\ conn = "live"
    /\ conn' = "dropped"
    /\ ret' = NoRet
    /\ op' = "drop"
    /\ before' = Len(calls)
    /\ UNCHANGED <<lib, calls, own, env, obs, run>>

(* impl Drop for Monado: the owner lets the Monado value go. *)
Drop ==
    /\ conn = "live"
    /\ calls' = Append(calls, Call("mnd_root_destroy", -1, "Success", <<>>))
    /\ conn' = "dropped"
    /\ ret' = NoRet
    /\ op' = "drop"
    /\ before' = Len(calls)
    /\ UNCHANGED <<lib, own, env, obs, run>>

Next == Create \/ GetApiVersion \/ Drop

Spec == Init /\ [][Next]_vars

----------------------------------------------------------------------------
(* The claims about the connection, checked under Spec. *)

(* The caret requirement ^1.3.0 as the claims state it. *)
Satisfies_1_3_0(v) == v[1] = 1 /\ v[2] >= 3

RootCreateAfterVersionQuery ==
    \A i \in 1..Len(calls) :
        calls[i].fn = "mnd_root_create" =>
            \E j \in 1..(i - 1) : calls[j].fn = "mnd_api_get_version"

\* C1: once create has run on a library that loaded, mnd_root_create was
\* issued if and only if the reported triple has major = 1 and minor >= 3;
\* for every other triple create returned ErrorInvalidVersion and issued no
\* mnd_root_create; a version query precedes every root creation.
C1_VersionGate ==
    (op # "none" /\ lib.loads) =>
        /\ (Count(calls, "mnd_root_create") > 0) <=> Satisfies_1_3_0(lib.version)
        /\ (op = "create" /\ ~Satisfies_1_3_0(lib.version)) =>
                ret = Err("ErrorInvalidVersion")
        /\ RootCreateAfterVersionQuery

C1_Witness ==
    /\ op = "create"
    /\ lib.loads
    /\ lib.version[1] = 1 /\ lib.version[2] = 2 /\ lib.version[3] = 1
    /\ ret = Err("ErrorInvalidVersion")
    /\ Count(calls, "mnd_root_create") = 0

\* C2 (as stated): for every library that loads and reports a compatible
\* version, create succeeds and get_api_version returns the reported triple.
C2_Original ==
    (lib.loads /\ Satisfies_1_3_0(lib.version)) =>
        /\ op = "create" => ret.ok
        /\ op = "get_api_version" => ret = Ok(lib.version)

\* C2 (amended): for every library that loads, reports a compatible version
\* and whose mnd_root_create returns Success, create succeeds and
\* get_api_version returns the reported triple; with any other status of
\* mnd_root_create, create returns that status.
C2_Amended ==
    (lib.loads /\ Satisfies_1_3_0(lib.version)) =>
        /\ (op = "create" /\ lib.createStatus = "Success") => ret.ok /\ conn = "live"
        /\ (op = "create" /\ lib.createStatus # "Success") => ret = Err(lib.createStatus)
        /\ op = "get_api_version" => ret = Ok(lib.version)

C2_Witness ==
    /\ op = "get_api_version"
    /\ lib.version = <<1, 4, 1>>
    /\ ret = Ok(<<1, 4, 1>>)

(* The lifetime of what a create call made has ended. *)
LifetimeEnded == (op = "create" /\ ~ret.ok) \/ conn = "dropped"

C4_Original == op = "get_api_version" => Len(calls) = before

\* C4 (amended): get_api_version issues exactly one foreign call,
\* mnd_api_get_version, which takes no root handle, and returns the triple
\* that call reports.
C4_Amended ==
    op = "get_api_version" =>
        /\ Len(calls) = before + 1
        /\ calls[Len(calls)].fn = "mnd_api_get_version"
        /\ ret = Ok(calls[Len(calls)].out)

C4_Witness ==
    /\ op = "get_api_version"
    /\ Len(calls) = before + 1
    /\ Count(calls, "mnd_api_get_version") >= 2

----------------------------------------------------------------------------
(* The enumerations: Monado::client_ids / clients (lib.rs), devices_data / *)
(* devices (lib.rs) and tracking_origins (space.rs).                       *)
(*                                                                         *)
(* The runtime answers each foreign call with a status and the values it   *)
(* writes; the answers of one invocation are drawn afresh for every        *)
(* invocation, so the runtime's lists may change between any two calls.    *)

(* The largest count the runtime reports. *)
MaxCount == 2

(* An enumeration starts only while the trace holds at most this many calls. *)
MaxTrace == 3

(* The statuses the runtime's calls are drawn from. *)
Statuses == {"Success", "ErrorOperationFailed", "ErrorInvalidProperty"}

ClientIds == {7, 9}

NameIds == {3}

(* The bytes of a foreign C string: an ASCII letter and 0xFF, a byte that  *)
(* no UTF-8 text holds.                                                    *)
Bytes == {65, 255}

(* The strings the runtime hands out: empty, text, not text, and text     *)
(* followed by a byte that is not text.                                    *)
CStrings == {c \in UNION {[1..n -> Bytes] : n \in 0..Cardinality(Bytes)} :
                \A i \in 1..Len(c) : i < Len(c) => c[i] = 65}

(* CStr::to_str: the text when the bytes are UTF-8, an error otherwise. *)
to_str(c) ==
    IF \A i \in 1..Len(c) : c[i] < 128 THEN Ok(c) ELSE Err("ErrorInvalidValue")

(* Option and Vec<Option<T>>: vec::from_elem(None, count), replace, flatten *)
None == <<>>

Some(x) == <<x>>

from_elem(x, n) == [i \in 1..n |-> x]

RECURSIVE flatten(_)
flatten(v) == IF v = <<>> THEN <<>> ELSE Head(v) \o flatten(Tail(v))

(* What the runtime answers to the calls of one invocation. *)
ClientAnswers ==
    UNION {[refresh : Statuses, count : [st : Statuses, n : {n}],
            items : [1..n -> [st : Statuses, id : ClientIds]]] : n \in 0..MaxCount}

DeviceAnswers ==
    UNION {[count : [st : Statuses, n : {n}],
            items : [1..n -> [st : Statuses, name_id : NameIds, name : CStrings]]]
           : n \in 0..MaxCount}

OriginAnswers ==
    UNION {[count : [st : Statuses, n : {n}],
            items : [1..n -> [st : Statuses, name : CStrings]]] : n \in 0..MaxCount}

RECURSIVE client_loop_keeps_going(_, _, _, _)
client_loop_keeps_going(a, index, clients, cs) ==
    IF index = Len(clients) THEN [res |-> Ok(flatten(clients)), calls |-> cs]
    ELSE
        LET ans == a.items[index + 1]
            c == Call("mnd_root_get_client_id_at_index", index, ans.st, <<ans.id>>)
        IN  IF ~to_result(ans.st).ok
            THEN client_loop_keeps_going(a, index + 1, clients, Append(cs, c))
            ELSE client_loop_keeps_going(a, index + 1,
                    [clients EXCEPT ![index + 1] = Some(ans.id)], Append(cs, c))

(* client_ids, the loop: one mnd_root_get_client_id_at_index per slot. *)
RECURSIVE client_loop(_, _, _, _)
client_loop(a, index, clients, cs) ==
    IF index = Len(clients) THEN [res |-> Ok(flatten(clients)), calls |-> cs]
    ELSE
        LET ans == a.items[index + 1]
            c == Call("mnd_root_get_client_id_at_index", index, ans.st, <<ans.id>>)
        IN  IF ~to_result(ans.st).ok
            THEN [res |-> to_result(ans.st), calls |-> Append(cs, c)]
            ELSE client_loop(a, index + 1,
                    [clients EXCEPT ![index + 1] = Some(ans.id)], Append(cs, c))

(* Monado::client_ids: refresh, count, then the loop. *)
client_ids(a) ==
    LET c1 == Call("mnd_root_update_client_list", -1, a.refresh, <<>>)
        c2 == Call("mnd_root_get_number_clients", -1, a.count.st, <<a.count.n>>)
    IN  IF ~to_result(a.refresh).ok THEN [res |-> to_result(a.refresh), calls |-> <<c1>>]
        ELSE IF ~to_result(a.count.st).ok
        THEN [res |-> to_result(a.count.st), calls |-> <<c1, c2>>]
        ELSE client_loop(a, 0, from_elem(None, a.count.n), <<c1, c2>>)

DeviceData(index, name_id, name) == [index |-> index, name_id |-> name_id, name |-> name]

(* devices_data, the loop: one mnd_root_get_device_info per slot, the name *)
(* decoded with to_str.                                                    *)
RECURSIVE device_loop(_, _, _, _)
device_loop(a, index, devices, cs) ==
    IF index = Len(devices) THEN [res |-> Ok(flatten(devices)), calls |-> cs]
    ELSE
        LET ans == a.items[index + 1]
            c == CallS("mnd_root_get_device_info", index, ans.st, <<ans.name_id>>, ans.name)
            name == to_str(ans.name)
        IN  IF ~to_result(ans.st).ok
            THEN [res |-> to_result(ans.st), calls |-> Append(cs, c)]
            ELSE IF ~name.ok
            THEN [res |-> Err(name.err), calls |-> Append(cs, c)]
            ELSE device_loop(a, index + 1,
                    [devices EXCEPT
                        ![index + 1] = Some(DeviceData(index, ans.name_id, name.val))],
                    Append(cs, c))

(* Monado::devices_data: count, then the loop. *)
devices_data(a) ==
    LET c1 == Call("mnd_root_get_device_count", -1, a.count.st, <<a.count.n>>)
    IN  IF ~to_result(a.count.st).ok THEN [res |-> to_result(a.count.st), calls |-> <<c1>>]
        ELSE device_loop(a, 0, from_elem(None, a.count.n), <<c1>>)

TrackingOrigin(id, name) == [id |-> id, name |-> name]

(* tracking_origins, the loop: one mnd_root_get_tracking_origin_name per   *)
(* slot, the name decoded with to_str.                                     *)
RECURSIVE origin_loop(_, _, _, _)
origin_loop(a, id, origins, cs) ==
    IF id = Len(origins) THEN [res |-> Ok(flatten(origins)), calls |-> cs]
    ELSE
        LET ans == a.items[id + 1]
            c == CallS("mnd_root_get_tracking_origin_name", id, ans.st, <<>>, ans.name)
            name == to_str(ans.name)
        IN  IF ~to_result(ans.st).ok
            THEN [res |-> to_result(ans.st), calls |-> Append(cs, c)]
            ELSE IF ~name.ok
            THEN [res |-> Err(name.err), calls |-> Append(cs, c)]
            ELSE origin_loop(a, id + 1,
                    [origins EXCEPT ![id + 1] = Some(TrackingOrigin(id, name.val))],
                    Append(cs, c))

(* Monado::tracking_origins: count, then the loop. *)
tracking_origins(a) ==
    LET c1 == Call("mnd_root_get_tracking_origin_count", -1, a.count.st, <<a.count.n>>)
    IN  IF ~to_result(a.count.st).ok THEN [res |-> to_result(a.count.st), calls |-> <<c1>>]
        ELSE origin_loop(a, 0, from_elem(None, a.count.n), <<c1>>)

(* A library create accepts: the oldest version the requirement admits. *)
GoodLibrary ==
    [loads |-> TRUE,
     version |-> <<crate_api_version.major, crate_api_version.minor,
                   crate_api_version.patch>>,
     createStatus |-> "Success"]

(* The state after a successful Monado::create. *)
InitEnum ==
    /\ lib = GoodLibrary
    /\ calls = create(lib).calls
    /\ conn = "live"
    /\ ret = Ok(<<>>)
    /\ op = "create"
    /\ before = 0
    /\ own = NoOwn
    /\ env = NoEnv
    /\ obs = NoObs
    /\ run = NoRun

(* Monado::clients(&self): a Client for each id of client_ids. *)
Clients ==
    /\ conn = "live"
    /\ Len(calls) <= MaxTrace
    /\ \E r \in {client_ids(a) : a \in ClientAnswers} :
        /\ calls' = calls \o r.calls
        /\ ret' = r.res
    /\ op' = "clients"
    /\ before' = Len(calls)
    /\ UNCHANGED <<lib, conn, own, env, obs, run>>

(* Monado::devices(&self): a Device for each DeviceData of devices_data. *)
Devices ==
    /\ conn = "live"
    /\ Len(calls) <= MaxTrace
    /\ \E r \in {devices_data(a) : a \in DeviceAnswers} :
        /\ calls' = calls \o r.calls
        /\ ret' = r.res
    /\ op' = "devices"
    /\ before' = Len(calls)
    /\ UNCHANGED <<lib, conn, own, env, obs, run>>

(* Monado::tracking_origins(&self). *)
TrackingOrigins ==
    /\ conn = "live"
    /\ Len(calls) <= MaxTrace
    /\ \E r \in {tracking_origins(a) : a \in OriginAnswers} :
        /\ calls' = calls \o r.calls
        /\ ret' = r.res
    /\ op' = "tracking_origins"
    /\ before' = Len(calls)
    /\ UNCHANGED <<lib, conn, own, env, obs, run>>

NextEnum == Clients \/ Devices \/ TrackingOrigins

SpecEnum == InitEnum /\ [][NextEnum]_vars

----------------------------------------------------------------------------
(* The claims about the enumerations, checked under SpecEnum. *)

EnumOps == {"clients", "devices", "tracking_origins"}

(* The foreign calls of the last operation. *)
Invocation == SubSeq(calls, before + 1, Len(calls))

(* Where the count call of the operation stands among its calls. *)
CountAt(o) == IF o = "clients" THEN 2 ELSE 1

CountFn(o) ==
    CASE o = "clients" -> "mnd_root_get_number_clients"
      [] o = "devices" -> "mnd_root_get_device_count"
      [] OTHER -> "mnd_root_get_tracking_origin_count"

FetchFn(o) ==
    CASE o = "clients" -> "mnd_root_get_client_id_at_index"
      [] o = "devices" -> "mnd_root_get_device_info"
      [] OTHER -> "mnd_root_get_tracking_origin_name"

(* The element the operation makes of what one fetch wrote. *)
Fetched(o, c) ==
    CASE o = "clients" -> c.out[1]
      [] o = "devices" -> [index |-> c.arg, name_id |-> c.out[1], name |-> c.str]
      [] OTHER -> [id |-> c.arg, name |-> c.str]

IsText(c) == \A i \in 1..Len(c) : c[i] # 255

Decodes(o, c) == (o # "clients" /\ c.fn = FetchFn(o)) => IsText(c.str)

\* C9: a sequence returned by clients(), devices() or tracking_origins() has
\* exactly as many elements as the count call of that invocation reported
\* (for clients(), the count call after the refresh), every foreign call of
\* the invocation having succeeded, and its i-th element is the one fetched
\* for index i - 1; and the call does return a sequence when every foreign
\* call succeeded and every fetched name is text.
C9_LengthIsCount ==
    op \in EnumOps =>
        LET inv == Invocation
            k == CountAt(op)
        IN  /\ ret.ok =>
                /\ \A i \in 1..Len(inv) : inv[i].st = "Success"
                /\ inv[k].fn = CountFn(op)
                /\ Len(ret.val) = inv[k].out[1]
                /\ Len(inv) = k + Len(ret.val)
                /\ \A i \in 1..Len(ret.val) :
                    /\ inv[k + i].fn = FetchFn(op)
                    /\ inv[k + i].arg = i - 1
                    /\ ret.val[i] = Fetched(op, inv[k + i])
            /\ (\A i \in 1..Len(inv) : inv[i].st = "Success" /\ Decodes(op, inv[i]))
                    => ret.ok

C9_Witness ==
    /\ op = "clients"
    /\ ret = Ok(<<7, 9>>)
    /\ Invocation[2].out = <<2>>
    /\ Len(Invocation) = 4

\* C10: in clients(), devices() and tracking_origins(), a foreign call that
\* returns a non-zero status is the last call of the invocation (no further
\* fetch, no retry), and the whole call returns exactly that status as its
\* error, with no elements.
C10_AllOrNothing ==
    op \in EnumOps =>
        LET inv == Invocation IN
        \A i \in 1..Len(inv) :
            inv[i].st # "Success" =>
                /\ i = Len(inv)
                /\ ~ret.ok
                /\ ret.err = inv[i].st
                /\ ret.val = <<>>

C10_Witness ==
    /\ op = "devices"
    /\ Len(Invocation) = 3
    /\ Invocation[1].out = <<2>>
    /\ Invocation[2].st = "Success"
    /\ Invocation[3].st = "ErrorInvalidProperty"
    /\ ret = Err("ErrorInvalidProperty")

----------------------------------------------------------------------------
(* Ownership of the connection: the Monado value is held by its owner, or  *)
(* by Rc<Monado> / Arc<Monado>, whose strong count its handles and the     *)
(* ClientRc / DeviceRc (ClientArc / DeviceArc) values share.  Client<'m>   *)
(* and Device<'m> borrow: the borrow checker keeps a holder alive while    *)
(* one of them lives.                                                      *)

(* The most dependents of one kind, and handles, alive at a time. *)
MaxDeps == 2

MaxHandles == 2

(* A call-issuing operation starts only while the trace is shorter. *)
MaxOwnCalls == 6

Strong_handles_only(o) == o.handles

(* The strong count of the Rc / Arc. *)
Strong(o) == o.handles + o.shC + o.shD

Refs(o) == o.refC + o.refD

IsClient(f) == f \in {"refC", "shC"}

IsShared(f) == f \in {"shC", "shD"}

(* The runtime's answers when nothing fails (what is owned does not depend *)
(* on the values).                                                         *)
QuietClientAnswers ==
    {a \in ClientAnswers :
        /\ a.refresh = "Success" /\ a.count.st = "Success"
        /\ \A i \in 1..a.count.n : a.items[i] = [st |-> "Success", id |-> 7]}

QuietDeviceAnswers ==
    {a \in DeviceAnswers :
        /\ a.count.st = "Success"
        /\ \A i \in 1..a.count.n :
            a.items[i] = [st |-> "Success", name_id |-> 3, name |-> <<65>>]}

(* The state after a successful Monado::create: the caller owns the value. *)
InitOwn ==
    /\ lib = GoodLibrary
    /\ calls = create(lib).calls
    /\ conn = "live"
    /\ ret = Ok(<<>>)
    /\ op = "create"
    /\ before = 0
    /\ own = NoOwn
    /\ env = NoEnv
    /\ obs = NoObs
    /\ run = NoRun

(* Rc::new(monado) / Arc::new(monado): the value moves into the counted    *)
(* box, which nothing may borrow across.                                   *)
IntoShared ==
    /\ conn = "live"
    /\ own.holder = "owned"
    /\ Refs(own) = 0
    /\ \E h \in {"rc", "arc"} : own' = [own EXCEPT !.holder = h, !.handles = 1]
    /\ op' = "share"
    /\ before' = Len(calls)
    /\ ret' = NoRet
    /\ UNCHANGED <<lib, calls, conn, env, obs, run>>

(* Rc::clone / Arc::clone of a handle. *)
CloneHandle ==
    /\ conn = "live"
    /\ own.holder \in {"rc", "arc"}
    /\ own.handles >= 1
    /\ own.handles < MaxHandles
    /\ own' = [own EXCEPT !.handles = @ + 1]
    /\ op' = "clone_handle"
    /\ before' = Len(calls)
    /\ ret' = NoRet
    /\ UNCHANGED <<lib, calls, conn, env, obs, run>>

(* monado: this.clone() for each of the n values made. *)
shared_with_clone(f, n) == [own EXCEPT ![f] = @ + n]

(* Monado::clients / devices (borrowed), clients_rc / clients_arc and      *)
(* devices_rc / devices_arc (through a handle): the enumeration, then one  *)
(* dependent value for each element.                                       *)
Enumerate(f) ==
    /\ Len(calls) < MaxOwnCalls
    /\ IF IsShared(f) THEN own.holder \in {"rc", "arc"} /\ own.handles >= 1
                      ELSE own.holder = "owned" \/ Strong(own) >= 1
    /\ \E r \in IF IsClient(f) THEN {client_ids(a) : a \in QuietClientAnswers}
                              ELSE {devices_data(a) : a \in QuietDeviceAnswers} :
        /\ own[f] + Len(r.res.val) <= MaxDeps
        /\ calls' = calls \o r.calls
        /\ ret' = r.res
        /\ own' = IF IsShared(f) THEN shared_with_clone(f, Len(r.res.val))
                                 ELSE [own EXCEPT ![f] = @ + Len(r.res.val)]
    /\ op' = "enumerate"
    /\ before' = Len(calls)
    /\ UNCHANGED <<lib, conn, env, obs, run>>

(* #[derive(Clone)] on Client, ClientRc, ClientArc, Device, DeviceRc and   *)
(* DeviceArc: the clone holds what the original holds.                     *)
CloneDependent(f) ==
    /\ own[f] >= 1
    /\ own[f] < MaxDeps
    /\ own' = [own EXCEPT ![f] = @ + 1]
    /\ op' = "clone_dependent"
    /\ before' = Len(calls)
    /\ ret' = NoRet
    /\ UNCHANGED <<lib, calls, conn, env, obs, run>>

(* A method of ClientLogic / DeviceLogic on a live dependent value: one    *)
(* foreign call on monado().root.                                          *)
UseDependent(f) ==
    /\ own[f] >= 1
    /\ Len(calls) < MaxOwnCalls
    /\ \E st \in Statuses :
        /\ calls' = Append(calls,
                Call(IF IsClient(f) THEN "mnd_root_set_client_primary"
                                    ELSE "mnd_root_set_device_brightness", -1, st, <<>>))
        /\ ret' = to_result(st)
    /\ op' = "use_dependent"
    /\ before' = Len(calls)
    /\ UNCHANGED <<lib, conn, own, env, obs, run>>

(* What letting go of one holder does: the Monado is dropped, and          *)
(* mnd_root_destroy issued, when it was the owner or the last strong one.  *)
Release(o) ==
    /\ own' = [o EXCEPT !.holder = IF Strong(o) = 0 THEN "gone" ELSE @]
    /\ conn' = IF Strong(o) = 0 THEN "dropped" ELSE conn
    /\ calls' = IF Strong(o) = 0
                THEN Append(calls, Call("mnd_root_destroy", -1, "Success", <<>>))
                ELSE calls

(* The owner of a Monado value lets it go; nothing borrows it then. *)
DropOwned ==
    /\ conn = "live"
    /\ own.holder = "owned"
    /\ Refs(own) = 0
    /\ Release(own)
    /\ op' = "drop"
    /\ before' = Len(calls)
    /\ ret' = NoRet
    /\ UNCHANGED <<lib, env, obs, run>>

(* A handle is dropped; a borrow keeps one strong holder alive. *)
DropHandle ==
    /\ conn = "live"
    /\ own.holder \in {"rc", "arc"}
    /\ own.handles >= 1
    /\ Refs(own) = 0 \/ Strong(own) >= 2
    /\ Release([own EXCEPT !.handles = @ - 1])
    /\ op' = "drop_handle"
    /\ before' = Len(calls)
    /\ ret' = NoRet
    /\ UNCHANGED <<lib, env, obs, run>>

(* A dependent value is dropped: a borrowing one gives back its borrow, a  *)
(* sharing one its strong count.                                           *)
DropDependent(f) ==
    /\ own[f] >= 1
    /\ IsShared(f) => (Refs(own) = 0 \/ Strong(own) >= 2)
    /\ IF IsShared(f)
       THEN Release([own EXCEPT ![f] = @ - 1])
       ELSE own' = [own EXCEPT ![f] = @ - 1] /\ UNCHANGED <<calls, conn>>
    /\ op' = "drop_dependent"
    /\ before' = Len(calls)
    /\ ret' = NoRet
    /\ UNCHANGED <<lib, env, obs, run>>

DependentKinds == {"refC", "refD", "shC", "shD"}

NextOwn ==
    \/ IntoShared
    \/ CloneHandle
    \/ DropOwned
    \/ DropHandle
    \/ \E f \in DependentKinds : Enumerate(f)
    \/ \E f \in DependentKinds : CloneDependent(f)
    \/ \E f \in DependentKinds : UseDependent(f)
    \/ \E f \in DependentKinds : DropDependent(f)

SpecOwn == InitOwn /\ [][NextOwn]_vars

----------------------------------------------------------------------------
(* The claim about ownership, checked under SpecOwn. *)

NoRootCallAfterDestroy ==
    \A i \in 1..Len(calls) :
        calls[i].fn = "mnd_root_destroy" =>
            \A j \in (i + 1)..Len(calls) : ~TakesRoot(calls[j].fn)

\* C5: after any sequence of creating, cloning and dropping Client and
\* Device values of the borrowed, Rc and Arc variants and the holders of the
\* connection: no foreign call taking the root handle follows
\* mnd_root_destroy; mnd_root_destroy is issued at most once, and only when
\* no dependent value is left; dropping a dependent value while another
\* holder of the connection remains issues no call at all.
C5_DependentsNeverRelease ==
    /\ NoRootCallAfterDestroy
    /\ Count(calls, "mnd_root_destroy") <= 1
    /\ Count(calls, "mnd_root_destroy") = 1 =>
            conn = "dropped" /\ Refs(own) = 0 /\ own.shC = 0 /\ own.shD = 0
    /\ (op = "drop_dependent" /\ (own.holder = "owned" \/ own.handles + own.shC + own.shD >= 1))
            => Len(calls) = before /\ conn = "live"

C5_Witness ==
    /\ op = "drop_dependent"
    /\ own.holder = "rc"
    /\ own.handles = 0
    /\ own.shC = 1
    /\ conn = "live"
    /\ Count(calls, "mnd_root_set_client_primary") >= 1

----------------------------------------------------------------------------
(* The runtime resolver: Monado::auto_connect, resolve_runtime_library and *)
(* find_system_library (lib.rs).                                           *)
(*                                                                         *)
(* A path is the sequence of its components, "/" being the root component. *)
(* The candidates for the active runtime descriptor are numbered: 0 is the *)
(* file XR_RUNTIME_JSON names, 1..MaxDirs the file                         *)
(* openxr/1/active_runtime.json of the configuration directories, the most *)
(* specific (XDG_CONFIG_HOME) first.                                       *)

(* The configuration directories searched. *)
MaxDirs == 2

DirNames == <<"home", "xdg1", "xdg2", "xdg3">>

DescriptorPath(i) ==
    IF i = 0 THEN <<"/", "xr", "runtime.json">>
    ELSE <<"/", DirNames[i], "openxr", "1", "active_runtime.json">>

OverridePath == <<"/", "override", "libmonado.so">>

(* A file name that holds a NUL character (JSON writes it \u0000). *)
NulName == "libmonado<NUL>.so"

(* The values of MND_libmonado_path: a bare file name, a bare file name    *)
(* with a NUL in it, a relative path of two components, an absolute path.  *)
VendorPaths ==
    { <<"libmonado.so">>, <<NulName>>, <<"lib", "libmonado.so">>,
      <<"/", "opt", "libmonado.so">> }

(* What a candidate file is: not there, there but not readable as text,    *)
(* readable but no RuntimeJSON (not JSON, or no runtime.library_path),     *)
(* a RuntimeJSON without MND_libmonado_path, or one with it.               *)
FileStates ==
    {[kind |-> k, vendor |-> <<>>] : k \in {"absent", "unreadable", "unparsable", "nofield"}}
        \cup {[kind |-> "vendor", vendor |-> v] : v \in VendorPaths}

(* LIBMONADO_PATH: unset, or set to a path that is or is not Unicode and   *)
(* names a regular file, a directory or nothing.                           *)
OverrideStates ==
    {[var |-> "unset", at |-> "missing"]}
        \cup [var : {"unicode", "not_unicode"}, at : {"file", "dir", "missing"}]

(* The platform and its loader: cfg(not(unix)), or what dlopen, dlinfo and *)
(* the link map's name do for a bare name.                                 *)
LoaderStates == {"not_unix", "dlopen_null", "dlinfo_fails", "name_not_text", "found"}

LoaderPath(name) == <<"/", "usr", "lib", name>>

(* std::fs::canonicalize of the descriptor's path: the path itself, the    *)
(* file a symlink leads to, or an error.                                   *)
CanonStates == {"same", "link", "fail"}

RealPath == <<"/", "real", "share", "active_runtime.json">>

Environments ==
    {e \in [override : OverrideStates,
            xr_set : BOOLEAN,
            xdg_ok : BOOLEAN,
            files : [0..MaxDirs -> FileStates],
            canon : CanonStates,
            loader : LoaderStates] :
        ~e.xr_set => e.files[0].kind = "absent"}

(* PathBuf::pop, Path::join, Path::components().count() *)
pop(p) == IF Len(p) > 1 THEN SubSeq(p, 1, Len(p) - 1) ELSE p

join(base, p) == IF p # <<>> /\ p[1] = "/" THEN p ELSE base \o p

components_count(p) == Len(p)

canonicalize(e, p) ==
    CASE e.canon = "same" -> Ok(p)
      [] e.canon = "link" -> Ok(RealPath)
      [] OTHER -> Err("Failed to canonicalize runtime json path")

Panic(msg) == [ok |-> FALSE, val |-> <<>>, err |-> msg, panic |-> TRUE]

(* find_system_library(lib): CString::new(lib).expect(..) panics on a NUL; *)
(* None when dlopen gives null, dlinfo fails or the name is not text.      *)
find_system_library(e, name) ==
    IF e.loader = "not_unix" THEN [kind |-> "none", path |-> <<>>]
    ELSE IF name = NulName THEN [kind |-> "panic", path |-> <<>>]
    ELSE IF e.loader = "dlopen_null" THEN [kind |-> "none", path |-> <<>>]
    ELSE IF e.loader = "dlinfo_fails" THEN [kind |-> "none", path |-> <<>>]
    ELSE IF e.loader = "name_not_text" THEN [kind |-> "none", path |-> <<>>]
    ELSE [kind |-> "some", path |-> LoaderPath(name)]

(* resolve_runtime_library(lib, runtime_json_path): the result and the     *)
(* names probed.  lib comes from a JSON string, so lib.to_str() is Some.   *)
resolve_runtime_library(e, lib_path, runtime_json_path) ==
    LET canon == canonicalize(e, runtime_json_path) IN
    IF ~canon.ok THEN [res |-> canon, probes |-> <<>>]
    ELSE
        LET runtime_path == pop(canon.val)
            path == join(runtime_path, lib_path)
        IN  IF components_count(lib_path) > 1 THEN [res |-> Ok(path), probes |-> <<>>]
            ELSE
                LET name == IF lib_path = <<>> THEN "" ELSE lib_path[1]
                    found == find_system_library(e, name)
                IN  CASE found.kind = "panic" ->
                            [res |-> Panic("library name isn't a valid C string"),
                             probes |-> <<name>>]
                      [] found.kind = "some" ->
                            [res |-> Ok(found.path), probes |-> <<name>>]
                      [] OTHER -> [res |-> Ok(path), probes |-> <<name>>]

(* xdg's find_config_files: the files that exist, from the least specific  *)
(* directory to the most specific one.                                     *)
RECURSIVE find_config_files(_, _)
find_config_files(e, i) ==
    IF i = 0 THEN <<>>
    ELSE (IF e.files[i].kind # "absent" THEN <<i>> ELSE <<>>)
            \o find_config_files(e, i - 1)

not_reversed(s) == s

(* Iterator::rev *)
rev(s) == [i \in 1..Len(s) |-> s[Len(s) + 1 - i]]

(* find_map over the candidates: read_to_string(&p).ok()?, then            *)
(* serde_json::from_str::<RuntimeJSON>(..).ok()?; the first that is Some.  *)
RECURSIVE find_map(_, _, _)
find_map(e, cands, reads) ==
    IF cands = <<>> THEN [found |-> FALSE, at |-> 0, reads |-> reads]
    ELSE
        LET p == Head(cands) IN
        IF e.files[p].kind \in {"absent", "unreadable", "unparsable"}
        THEN find_map(e, Tail(cands), Append(reads, p))
        ELSE [found |-> TRUE, at |-> p, reads |-> Append(reads, p)]

(* The iterator auto_connect searches: XR_RUNTIME_JSON, then the reversed  *)
(* find_config_files of xdg::BaseDirectories::new().ok().                  *)
candidates(e) ==
    (IF e.xr_set THEN <<0>> ELSE <<>>)
        \o (IF e.xdg_ok THEN rev(find_config_files(e, MaxDirs)) ELSE <<>>)

(* Self::create(path).map_err(|e| format!("{e:?}")) *)
create_at(l, path, reads, probes) ==
    LET r == create(l) IN
    [res |-> r.res, calls |-> r.calls,
     obs |-> [reads |-> reads, probes |-> probes, loaded |-> <<path>>]]

Failed(res, reads, probes) ==
    [res |-> res, calls |-> <<>>,
     obs |-> [reads |-> reads, probes |-> probes, loaded |-> <<>>]]

(* env::var: Ok only when the variable is set and its value is Unicode. *)
env_var(o) == o.var = "unicode"

(* Monado::auto_connect *)
auto_connect(e, l) ==
    IF env_var(e.override) THEN
        IF e.override.at = "file" THEN create_at(l, OverridePath, <<>>, <<>>)
        ELSE Failed(Err("LIBMONADO_PATH does not point to a valid file"), <<>>, <<>>)
    ELSE
        LET override_runtime == find_map(e, candidates(e), <<>>) IN
        IF ~override_runtime.found
        THEN Failed(Err("Couldn't find the active runtime json"),
                    override_runtime.reads, <<>>)
        ELSE
            LET runtime_json == e.files[override_runtime.at] IN
            IF runtime_json.kind = "nofield"
            THEN Failed(Err("Couldn't find libmonado path in active runtime json"),
                        override_runtime.reads, <<>>)
            ELSE
                LET path == resolve_runtime_library(e, runtime_json.vendor,
                                DescriptorPath(override_runtime.at))
                IN  IF ~path.res.ok
                    THEN Failed(path.res, override_runtime.reads, path.probes)
                    ELSE create_at(l, path.res.val, override_runtime.reads, path.probes)

InitResolve ==
    /\ lib = GoodLibrary
    /\ calls = <<>>
    /\ conn = "none"
    /\ ret = NoRet
    /\ op = "none"
    /\ before = 0
    /\ own = NoOwn
    /\ env \in Environments
    /\ obs = NoObs
    /\ run = NoRun

AutoConnect ==
    /\ op = "none"
    /\ LET r == auto_connect(env, lib) IN
        /\ calls' = calls \o r.calls
        /\ conn' = IF r.res.ok THEN "live" ELSE "none"
        /\ ret' = r.res
        /\ obs' = r.obs
    /\ op' = "auto_connect"
    /\ before' = Len(calls)
    /\ UNCHANGED <<lib, own, env, run>>

NextResolve == AutoConnect

SpecResolve == InitResolve /\ [][NextResolve]_vars

----------------------------------------------------------------------------
(* The claims about the resolver, checked under SpecResolve. *)

OverrideSet == env.override.var # "unset"

OverrideError == Err("LIBMONADO_PATH does not point to a valid file")

\* C6: in auto_connect, if LIBMONADO_PATH is set and names an existing
\* regular file, that path is the one passed to create, whatever descriptors
\* exist; if it is set but names no regular file, auto_connect fails with
\* the override error and reads no descriptor file.
C6_OverrideIsAuthoritative ==
    (op = "auto_connect" /\ OverrideSet) =>
        IF env.override.at = "file"
        THEN obs.loaded = <<OverridePath>> /\ obs.reads = <<>>
        ELSE ret = OverrideError /\ obs.reads = <<>> /\ obs.loaded = <<>>

(* The candidates in the order the claims give: the XR_RUNTIME_JSON path,  *)
(* then the configuration directories that hold the file, 1 first.         *)
RECURSIVE DirsFrom(_)
DirsFrom(i) ==
    IF i > MaxDirs THEN <<>>
    ELSE (IF env.files[i].kind # "absent" THEN <<i>> ELSE <<>>) \o DirsFrom(i + 1)

Walk == (IF env.xr_set THEN <<0>> ELSE <<>>) \o (IF env.xdg_ok THEN DirsFrom(1) ELSE <<>>)

Parses(i) == env.files[i].kind \in {"nofield", "vendor"}

(* The place in Walk of the first candidate that parses, 0 if none does. *)
FirstParsing ==
    IF \E k \in 1..Len(Walk) : Parses(Walk[k])
    THEN CHOOSE k \in 1..Len(Walk) :
            Parses(Walk[k]) /\ \A j \in 1..(k - 1) : ~Parses(Walk[j])
    ELSE 0

\* C7: with LIBMONADO_PATH unset, auto_connect reads the candidates in order
\* (XR_RUNTIME_JSON first, then the configuration directories, most specific
\* first) up to the first that is readable and parses, skipping the others;
\* if none parses it fails with "Couldn't find the active runtime json"; if
\* the selected one has no MND_libmonado_path it fails with "Couldn't find
\* libmonado path in active runtime json"; no later candidate is read.
C7_FirstParsingDescriptor ==
    (op = "auto_connect" /\ ~OverrideSet) =>
        IF FirstParsing = 0
        THEN /\ ret = Err("Couldn't find the active runtime json")
             /\ obs.reads = Walk
             /\ obs.loaded = <<>>
        ELSE /\ obs.reads = SubSeq(Walk, 1, FirstParsing)
             /\ ret # Err("Couldn't find the active runtime json")
             /\ (ret = Err("Couldn't find libmonado path in active runtime json"))
                    <=> env.files[Walk[FirstParsing]].kind = "nofield"
             /\ env.files[Walk[FirstParsing]].kind = "nofield" => obs.loaded = <<>>
             /\ (env.files[Walk[FirstParsing]].vendor = <<"lib", "libmonado.so">>
                    /\ env.canon = "same")
                    => obs.loaded =
                        <<SubSeq(DescriptorPath(Walk[FirstParsing]), 1,
                                 Len(DescriptorPath(Walk[FirstParsing])) - 1)
                            \o <<"lib", "libmonado.so">>>>

C7_Witness ==
    /\ op = "auto_connect"
    /\ ~OverrideSet
    /\ env.xr_set /\ env.files[0].kind = "unreadable"
    /\ env.xdg_ok /\ env.files[1].kind = "unparsable"
    /\ env.files[2].kind = "vendor"
    /\ obs.reads = <<0, 1, 2>>
    /\ ret.ok

(* resolve_runtime_library was called: a descriptor with the vendor path   *)
(* was selected.                                                           *)
ResolveReached ==
    /\ op = "auto_connect"
    /\ env.override.var # "unicode"
    /\ FirstParsing # 0
    /\ env.files[Walk[FirstParsing]].kind = "vendor"

\* C8: when canonicalization succeeds, resolve_runtime_library returns the
\* join of the descriptor's symlink-resolved directory with the vendor path,
\* without a loader probe, when the vendor path has more than one component;
\* the loader-resolved path when it is a bare file name and the probe
\* succeeds; the directory join when it is a bare file name and the probe
\* fails.  When canonicalization fails it returns that error.
C8_ResolveRuntimeLibrary ==
    ResolveReached =>
        LET v == env.files[Walk[FirstParsing]].vendor
            real == IF env.canon = "link" THEN RealPath
                                          ELSE DescriptorPath(Walk[FirstParsing])
            dir == SubSeq(real, 1, Len(real) - 1)
            joined == IF v[1] = "/" THEN v ELSE dir \o v
        IN  IF env.canon = "fail"
            THEN ret = Err("Failed to canonicalize runtime json path") /\ obs.loaded = <<>>
            ELSE IF Len(v) > 1 THEN obs.loaded = <<joined>> /\ obs.probes = <<>>
            ELSE IF env.loader = "found" THEN obs.loaded = <<LoaderPath(v[1])>>
            ELSE obs.loaded = <<joined>>

----------------------------------------------------------------------------
(* sys.rs: the client state flags; lib.rs: ClientLogic::state and          *)
(* ClientLogic::set_io_active.  The runtime keeps one 32-bit state word    *)
(* for each client; other processes talk to the same runtime.              *)

(* A set_io_active starts only while the trace holds at most this many calls. *)
MaxClientTrace == 3

(* The changes another actor makes between a state read and the toggle. *)
MaxExternal == 2

(* flagset::flags! enum ClientState: u32 *)
ClientState ==
    [ClientPrimaryApp |-> 1, ClientSessionActive |-> 2, ClientSessionVisible |-> 4,
     ClientSessionFocused |-> 8, ClientSessionOverlay |-> 16, ClientIoActive |-> 32]

RECURSIVE SumOf(_)
SumOf(S) == IF S = {} THEN 0 ELSE LET x == CHOOSE y \in S : TRUE IN x + SumOf(S \ {x})

(* FlagSet::<ClientState>::full().bits(): every defined flag. *)
ClientStateMask == SumOf({ClientState[f] : f \in DOMAIN ClientState})

(* The single bit b of the word w. *)
Bit(w, b) == (w \div b) % 2

(* The state words a runtime holds for a client: with and without the     *)
(* IO-active bit, with and without a bit this binding has no flag for.     *)
Words == {u + a : u \in {0, 2 * ClientState.ClientIoActive},
                  a \in {0, ClientState.ClientIoActive}}

(* FlagSet::new_unchecked(bits): the bits as they are, none looked at. *)
new_unchecked(bits) == bits

(* FlagSet::contains(flag): (bits & flag) == flag, for a one-bit flag. *)
contains(bits, flag) == Bit(bits, flag) = 1

(* mnd_root_toggle_client_io_active on the runtime's side: the word with   *)
(* the IO-active bit flipped.                                              *)
toggled(w) ==
    IF contains(w, ClientState.ClientIoActive)
    THEN w - ClientState.ClientIoActive
    ELSE w + ClientState.ClientIoActive

(* ClientLogic::state: one mnd_root_get_client_state; on success the word  *)
(* the runtime wrote becomes the flag set.                                 *)
state(id, st, word) ==
    LET c == Call("mnd_root_get_client_state", id, st,
                  IF st = "Success" THEN <<word>> ELSE <<>>)
    IN  IF ~to_result(st).ok THEN [res |-> to_result(st), calls |-> <<c>>]
        ELSE [res |-> Ok(new_unchecked(word)), calls |-> <<c>>]

needs_toggle_always(word, active) == TRUE

needs_toggle_if_equal(word, active) == contains(word, ClientState.ClientIoActive) = active

(* set_io_active, the comparison: state.contains(ClientIoActive) != active *)
needs_toggle(word, active) == contains(word, ClientState.ClientIoActive) # active

(* The state after a successful Monado::create, the runtime holding any    *)
(* state word for each client.  run.state: the runtime's word for each     *)
(* client; run.pc: "read" while a set_io_active stands between its state   *)
(* read and its toggle; run.id, run.active: the client and the value of    *)
(* the last set_io_active; run.read: the flag set its state() returned;    *)
(* run.ext: the changes other actors made to that client's word since      *)
(* that read and before the return; run.after: the client's word when      *)
(* set_io_active returned.                                                 *)
InitClient ==
    /\ lib = GoodLibrary
    /\ calls = create(lib).calls
    /\ conn = "live"
    /\ ret = Ok(<<>>)
    /\ op = "create"
    /\ before = 0
    /\ own = NoOwn
    /\ env = NoEnv
    /\ obs = NoObs
    /\ run \in [state : [ClientIds -> Words], pc : {"idle"}, id : {0}, active : {FALSE},
                read : {0}, ext : {0}, after : {0}]

(* ClientLogic::state(&mut self) on the client id. *)
State ==
    /\ conn = "live"
    /\ run.pc = "idle"
    /\ Len(calls) <= MaxClientTrace
    /\ \E id \in ClientIds, st \in Statuses :
        LET r == state(id, st, run.state[id]) IN
        /\ calls' = calls \o r.calls
        /\ ret' = r.res
    /\ op' = "state"
    /\ before' = Len(calls)
    /\ UNCHANGED <<lib, conn, own, env, obs, run>>

(* ClientLogic::set_io_active(&mut self, active), up to the end of         *)
(* `let state = self.state()?`: the read, and the return when it failed.   *)
SetIoActiveRead ==
    /\ conn = "live"
    /\ run.pc = "idle"
    /\ Len(calls) <= MaxClientTrace
    /\ \E id \in ClientIds, active \in BOOLEAN, st \in Statuses :
        LET r == state(id, st, run.state[id]) IN
        /\ calls' = calls \o r.calls
        /\ IF r.res.ok
           THEN /\ run' = [run EXCEPT !.pc = "read", !.id = id, !.active = active,
                                      !.read = r.res.val, !.ext = 0]
                /\ ret' = NoRet
                /\ op' = "set_io_active.state"
           ELSE /\ run' = [run EXCEPT !.id = id, !.active = active, !.read = 0,
                                      !.ext = 0, !.after = run.state[id]]
                /\ ret' = r.res
                /\ op' = "set_io_active"
    /\ before' = Len(calls)
    /\ UNCHANGED <<lib, conn, own, env, obs>>

(* set_io_active, from the comparison to the return: the toggle call when  *)
(* the bit read differs from the value asked for.  The runtime flips the   *)
(* bit when its toggle reports success.                                    *)
SetIoActiveToggle ==
    /\ conn = "live"
    /\ run.pc = "read"
    /\ IF needs_toggle(run.read, run.active)
       THEN \E st \in Statuses :
            LET w == IF st = "Success" THEN toggled(run.state[run.id])
                                       ELSE run.state[run.id] IN
            /\ calls' = Append(calls,
                    Call("mnd_root_toggle_client_io_active", run.id, st, <<>>))
            /\ ret' = to_result(st)
            /\ run' = [run EXCEPT !.pc = "idle", !.state[run.id] = w, !.after = w]
       ELSE /\ calls' = calls
            /\ ret' = Ok(<<>>)
            /\ run' = [run EXCEPT !.pc = "idle", !.after = run.state[run.id]]
    /\ op' = "set_io_active"
    /\ UNCHANGED <<lib, conn, before, own, env, obs>>

(* Another process toggles the IO-active bit of a client in the runtime. *)
ExternalToggle ==
    /\ conn = "live"
    /\ \E id \in ClientIds :
        LET inWindow == run.pc = "read" /\ id = run.id IN
        /\ inWindow => run.ext < MaxExternal
        /\ run' = [run EXCEPT !.state[id] = toggled(@),
                              !.ext = IF inWindow THEN @ + 1 ELSE @]
    /\ UNCHANGED <<lib, calls, conn, ret, op, before, own, env, obs>>

NextClient == State \/ SetIoActiveRead \/ SetIoActiveToggle \/ ExternalToggle

SpecClient == InitClient /\ [][NextClient]_vars

----------------------------------------------------------------------------
(* The claims about the client operations, checked under SpecClient. *)

(* The word the state read of the last operation wrote. *)
WordRead == Invocation[1].out[1]

\* C11: a set_io_active(active) that has returned issued exactly one state
\* read, for its own client, as its first call; when the read failed it
\* issued nothing else and returned the read's status as its error; when the
\* read succeeded it issued no toggle call if the IO-active bit of the word
\* read equals active and exactly one toggle call, for its own client, if it
\* differs; and it issued no other call.
C11_ReadCompareToggle ==
    op = "set_io_active" =>
        LET inv == Invocation
            toggles == Count(inv, "mnd_root_toggle_client_io_active")
        IN  /\ Len(inv) >= 1
            /\ Count(inv, "mnd_root_get_client_state") = 1
            /\ inv[1].fn = "mnd_root_get_client_state"
            /\ inv[1].arg = run.id
            /\ Len(inv) = 1 + toggles
            /\ \A i \in 1..Len(inv) : inv[i].arg = run.id
            /\ inv[1].st # "Success" => toggles = 0 /\ ret = Err(inv[1].st)
            /\ inv[1].st = "Success" =>
                toggles = IF (Bit(WordRead, ClientState.ClientIoActive) = 1) = run.active
                          THEN 0 ELSE 1

C11_Witness ==
    /\ op = "set_io_active"
    /\ run.active
    /\ ret.ok
    /\ Len(Invocation) = 2
    /\ Invocation[2].fn = "mnd_root_toggle_client_io_active"
    /\ Bit(WordRead, ClientState.ClientIoActive) = 0

\* C14: when set_io_active(active) returns success, the client's IO-active
\* bit equals active at that moment exactly when other actors changed the
\* bit an even number of times between its state read and its toggle: with
\* no change in between, the bit equals active; with one change in between
\* (the witness), the call returns success and the bit is unequal to active.
C14_NotAtomic ==
    (op = "set_io_active" /\ ret.ok) =>
        (contains(run.after, ClientState.ClientIoActive) = run.active
            <=> run.ext % 2 = 0)

C14_Witness ==
    /\ op = "set_io_active"
    /\ ret.ok
    /\ run.ext = 1
    /\ contains(run.after, ClientState.ClientIoActive) # run.active

\* C15: the flag set a successful state() returns holds only bits of the six
\* defined ClientState flags (the low six bits: nothing at or above the bit
\* after the mask), whatever word the runtime wrote.
C15_StateWithinMask ==
    (op = "state" /\ ret.ok) => ret.val \div (ClientStateMask + 1) = 0

----------------------------------------------------------------------------
(* lib.rs: the role lookup (device_index_from_role, device_from_role) and  *)
(* the operations that return a string of the foreign side                 *)
(* (ClientLogic::name, DeviceLogic::get_info_string, DeviceLogic::serial). *)

(* A lookup starts only while the trace holds at most this many calls. *)
MaxLookupTrace == 3

(* impl From<DeviceRole> for &'static str: some of the role names. *)
Roles == {"head", "hand-tracking-left"}

(* What mnd_root_get_device_from_role leaves in its i32 out-parameter:     *)
(* device indices, the sentinel -1 and another negative number.            *)
Indices == {-2, -1, 0, 1}

(* The device indices a Device value holds. *)
DeviceIndices == {0, 1}

(* enum MndProperty *)
MndProperty == [PropertyNameString |-> 0, PropertySerialString |-> 1]

(* A u32 is kept as its two 16-bit halves. *)
Half == 2 ^ 16

(* `index as u32` of an i32: the same 32 bits, read as unsigned. *)
as_u32(i) == [hi |-> (i \div Half) % Half, lo |-> i % Half]

(* U+FFFD REPLACEMENT CHARACTER *)
Replacement == 65533

(* CStr::to_string_lossy: the text, every byte that is not UTF-8 replaced  *)
(* with U+FFFD (the byte 0xFF is never part of a longer sequence).         *)
to_string_lossy(c) == [i \in 1..Len(c) |-> IF c[i] < 128 THEN c[i] ELSE Replacement]

(* Monado::device_index_from_role_str: index starts at -1; one             *)
(* mnd_root_get_device_from_role; only -1 is refused.                      *)
device_index_from_role_str(role_name, st, index) ==
    LET c == Call("mnd_root_get_device_from_role", role_name, st, <<index>>)
    IN  IF ~to_result(st).ok THEN [res |-> to_result(st), calls |-> <<c>>]
        ELSE IF index = -1 THEN [res |-> Err("ErrorInvalidValue"), calls |-> <<c>>]
        ELSE [res |-> Ok(as_u32(index)), calls |-> <<c>>]

Device(index, name_id, name) == [index |-> index, name_id |-> name_id, name |-> name]

(* Monado::device_from_role_str: the index of the role, then one           *)
(* mnd_root_get_device_info for it, the name decoded with to_str.          *)
device_from_role_str(role_name, a) ==
    LET r == device_index_from_role_str(role_name, a.role.st, a.role.index)
        c == CallS("mnd_root_get_device_info", r.res.val, a.info.st,
                   <<a.info.name_id>>, a.info.name)
        name == to_str(a.info.name)
    IN  IF ~r.res.ok THEN r
        ELSE IF ~to_result(a.info.st).ok
        THEN [res |-> to_result(a.info.st), calls |-> Append(r.calls, c)]
        ELSE IF ~name.ok
        THEN [res |-> Err(name.err), calls |-> Append(r.calls, c)]
        ELSE [res |-> Ok(Device(r.res.val, a.info.name_id, name.val)),
              calls |-> Append(r.calls, c)]

(* What the runtime answers to the calls of one role lookup.  A failed     *)
(* lookup leaves the out-parameter as the binding set it, -1.              *)
RoleAnswers ==
    {a \in [st : Statuses, index : Indices] : a.st # "Success" => a.index = -1}

InfoAnswers == [st : Statuses, name_id : NameIds, name : CStrings]

StringAnswers == [st : Statuses, str : CStrings]

(* ClientLogic::name: one mnd_root_get_client_name, decoded with to_str. *)
name(id, a) ==
    LET c == CallS("mnd_root_get_client_name", id, a.st, <<>>, a.str)
    IN  IF ~to_result(a.st).ok THEN [res |-> to_result(a.st), calls |-> <<c>>]
        ELSE [res |-> to_str(a.str), calls |-> <<c>>]

(* DeviceLogic::get_info_string: one mnd_root_get_device_info_string,      *)
(* decoded with to_string_lossy.                                           *)
get_info_string(index, property, a) ==
    LET c == CallS("mnd_root_get_device_info_string", index, a.st, <<property>>, a.str)
    IN  IF ~to_result(a.st).ok THEN [res |-> to_result(a.st), calls |-> <<c>>]
        ELSE [res |-> Ok(to_string_lossy(a.str)), calls |-> <<c>>]

(* DeviceLogic::serial *)
serial(index, a) == get_info_string(index, MndProperty.PropertySerialString, a)

(* ClientLogic::name(&mut self) on the client id. *)
ClientName ==
    /\ conn = "live"
    /\ Len(calls) <= MaxLookupTrace
    /\ \E r \in {name(id, a) : id \in ClientIds, a \in StringAnswers} :
        /\ calls' = calls \o r.calls
        /\ ret' = r.res
    /\ op' = "name"
    /\ before' = Len(calls)
    /\ UNCHANGED <<lib, conn, own, env, obs, run>>

(* Monado::device_index_from_role(&self, role). *)
DeviceIndexFromRole ==
    /\ conn = "live"
    /\ Len(calls) <= MaxLookupTrace
    /\ \E r \in {device_index_from_role_str(role, a.st, a.index) :
                    role \in Roles, a \in RoleAnswers} :
        /\ calls' = calls \o r.calls
        /\ ret' = r.res
    /\ op' = "device_index_from_role"
    /\ before' = Len(calls)
    /\ UNCHANGED <<lib, conn, own, env, obs, run>>

(* Monado::device_from_role(&self, role). *)
DeviceFromRole ==
    /\ conn = "live"
    /\ Len(calls) <= MaxLookupTrace
    /\ \E r \in {device_from_role_str(role, [role |-> a, info |-> b]) :
                    role \in Roles, a \in RoleAnswers, b \in InfoAnswers} :
        /\ calls' = calls \o r.calls
        /\ ret' = r.res
    /\ op' = "device_from_role"
    /\ before' = Len(calls)
    /\ UNCHANGED <<lib, conn, own, env, obs, run>>

(* DeviceLogic::get_info_string(&self, property) on the device index. *)
GetInfoString ==
    /\ conn = "live"
    /\ Len(calls) <= MaxLookupTrace
    /\ \E r \in {get_info_string(index, MndProperty[p], a) :
                    index \in DeviceIndices, p \in DOMAIN MndProperty,
                    a \in StringAnswers} :
        /\ calls' = calls \o r.calls
        /\ ret' = r.res
    /\ op' = "get_info_string"
    /\ before' = Len(calls)
    /\ UNCHANGED <<lib, conn, own, env, obs, run>>

(* DeviceLogic::serial(&self) on the device index. *)
Serial ==
    /\ conn = "live"
    /\ Len(calls) <= MaxLookupTrace
    /\ \E r \in {serial(index, a) : index \in DeviceIndices, a \in StringAnswers} :
        /\ calls' = calls \o r.calls
        /\ ret' = r.res
    /\ op' = "serial"
    /\ before' = Len(calls)
    /\ UNCHANGED <<lib, conn, own, env, obs, run>>

NextLookup ==
    \/ ClientName
    \/ DeviceIndexFromRole
    \/ DeviceFromRole
    \/ GetInfoString
    \/ Serial
    \/ Devices
    \/ TrackingOrigins

SpecLookup == InitEnum /\ [][NextLookup]_vars

----------------------------------------------------------------------------
(* The claims about the role lookup and the strings, under SpecLookup. *)

RoleOps == {"device_index_from_role", "device_from_role"}

\* C12: in device_from_role and device_index_from_role, when the role lookup
\* returns success and reports a negative index, the operation returns
\* ErrorInvalidValue and the lookup is its only foreign call (no device-info
\* call is issued, for any index).
C12_NegativeIndexRefused ==
    op \in RoleOps =>
        LET inv == Invocation IN
        (inv[1].st = "Success" /\ inv[1].out[1] < 0) =>
            /\ ret = Err("ErrorInvalidValue")
            /\ Len(inv) = 1

StringOps ==
    {"name", "device_from_role", "devices", "tracking_origins", "get_info_string",
     "serial"}

\* C13: in every operation that returns a string of the foreign side (client
\* name, device name, tracking-origin name, device string property, serial),
\* when a foreign call succeeded and the bytes it wrote are not text, the
\* operation returns ErrorInvalidValue.
C13_UndecodableIsError ==
    op \in StringOps =>
        LET inv == Invocation IN
        \A i \in 1..Len(inv) :
            ("str" \in DOMAIN inv[i] /\ inv[i].st = "Success" /\ ~IsText(inv[i].str))
                => ret = Err("ErrorInvalidValue")

====
